---- MODULE Spec2Model ----
(***************************************************************************)
(* A model of counterfactual_simulation.py: the CounterfactualCommunication *)
(* object (M, N, theta_M, theta_N, leakage_prob), the circuit built by      *)
(* create_circuit, the statevector trajectory of get_state_evolution, the   *)
(* sampled counts of run_simulation and the counts read by analyze_results. *)
(*                                                                         *)
(* Floats are modelled as signed fixed-point numbers with 12 decimal       *)
(* digits after the point, held in three limbs of base 10^4 (least          *)
(* significant first; the top limb carries the sign and the integer part).  *)
(* The amplitudes of the single qubit stay real under RY and X, so a        *)
(* statevector is the pair of the real parts <<amp0, amp1>>.                *)
(***************************************************************************)
EXTENDS Integers, Sequences, FiniteSets, TLC

(***************************************************************************)
(* Bounds of the model.                                                    *)
(***************************************************************************)
MaxM == 4
MaxN == 5
MaxShots == 2
DetMaxM == 2
DetMaxN == 3
DetMaxShots == 1

\* The arguments the calls are made with: every valid (M, N), and the invalid
\* ones with a zero or a negative cycle count.
ConfigArgs ==
    ((1..MaxM) \X (1..MaxN))
    \cup {<<0, 1>>, <<1, 0>>, <<0, 0>>, <<-1, 1>>, <<1, -1>>, <<-1, -1>>}
RunShotArgs == 0..MaxShots
AnalyzeShotArgs == (-1)..MaxShots
DetConfigArgs == (1..DetMaxM) \X (1..DetMaxN)
DetShotArgs == 1..DetMaxShots

(***************************************************************************)
(* Fixed-point arithmetic standing for Python floats.                      *)
(***************************************************************************)
Base == 10000

Norm3(a, b, c) ==
    LET t == b + (a \div Base)
    IN  <<a % Base, t % Base, c + (t \div Base)>>

FAdd(x, y) == Norm3(x[1] + y[1], x[2] + y[2], x[3] + y[3])

FSub(x, y) == Norm3(x[1] - y[1], x[2] - y[2], x[3] - y[3])

FNeg(x) == Norm3(-x[1], -x[2], -x[3])

\* x * y, rounded to the nearest unit of the last place.
FMul(x, y) ==
    LET c0 == x[1] * y[1]
        c1 == x[1] * y[2] + x[2] * y[1] + (c0 \div Base)
        c2 == x[1] * y[3] + x[2] * y[2] + x[3] * y[1] + (c1 \div Base) + (Base \div 2)
        c3 == x[2] * y[3] + x[3] * y[2] + (c2 \div Base)
        c4 == x[3] * y[3] + (c3 \div Base)
    IN  <<c3 % Base, c4 % Base, c4 \div Base>>

FDivPos(x, n) ==
    LET t1 == (x[3] % n) * Base + x[2]
        t0 == (t1 % n) * Base + x[1]
    IN  <<t0 \div n, t1 \div n, x[3] \div n>>

\* x / n for a non-zero integer n.
FDiv(x, n) == IF n > 0 THEN FDivPos(x, n) ELSE FNeg(FDivPos(x, -n))

FLeq(x, y) == FSub(y, x)[3] >= 0

FAbs(x) == IF x[3] < 0 THEN FNeg(x) ELSE x

FZero == <<0, 0, 0>>
FOne == <<0, 0, Base>>

\* np.pi = 3.141592653589793, to 12 places.
PI == <<3590, 9265, 31415>>

\* The alternating power series of sin and cos: n terms, starting at `term`,
\* each next term being -term * x^2 / (k * (k + 1)).
RECURSIVE Series(_, _, _, _)
Series(term, x2, k, n) ==
    IF n = 0 THEN FZero
    ELSE FAdd(term, Series(FNeg(FDiv(FMul(term, x2), k * (k + 1))), x2, k + 2, n - 1))

FSin(x) == Series(x, FMul(x, x), 2, 8)

FCos(x) == Series(FOne, FMul(x, x), 1, 8)

(***************************************************************************)
(* The object: CounterfactualCommunication.__init__.                       *)
(***************************************************************************)
NoObject == [M |-> 0, N |-> 0, theta_M |-> FZero, theta_N |-> FZero,
             leakage_prob |-> FZero]

\* A constructor whose leakage forgets the outer cycle count.
__init___LeakageWithoutM(M, N) ==
    IF M = 0 \/ N = 0
    THEN [err |-> "ZeroDivisionError", self |-> NoObject]
    ELSE [err |-> "none",
          self |-> [M |-> M, N |-> N,
                    theta_M |-> FDiv(PI, 4 * M),
                    theta_N |-> FDiv(PI, 4 * N),
                    leakage_prob |-> LET r == FDiv(PI, 16 * N) IN FMul(r, r)]]

\* A constructor whose outer angle is not divided by the outer cycle count.
__init___ThetaWithoutM(M, N) ==
    IF M = 0 \/ N = 0
    THEN [err |-> "ZeroDivisionError", self |-> NoObject]
    ELSE [err |-> "none",
          self |-> [M |-> M, N |-> N,
                    theta_M |-> FDiv(PI, 4),
                    theta_N |-> FDiv(PI, 4 * N),
                    leakage_prob |-> LET r == FDiv(PI, 16 * M * N) IN FMul(r, r)]]

\* The result of the constructor: the exception it raises, if any, and the
\* object.  4 * M = 0 or 4 * N = 0 makes the float division raise.
__init__(M, N) ==
    IF M = 0 \/ N = 0
    THEN [err |-> "ZeroDivisionError", self |-> NoObject]
    ELSE [err |-> "none",
          self |-> [M |-> M, N |-> N,
                    theta_M |-> FDiv(PI, 4 * M),
                    theta_N |-> FDiv(PI, 4 * N),
                    leakage_prob |-> LET r == FDiv(PI, 16 * M * N) IN FMul(r, r)]]

(***************************************************************************)
(* Circuit instructions.  A rotation carries its angle and the entries     *)
(* cos(theta/2), sin(theta/2) of its matrix                                *)
(*     [ cos(theta/2)  -sin(theta/2) ]                                      *)
(*     [ sin(theta/2)   cos(theta/2) ]                                      *)
(***************************************************************************)
\* A label is <<text, number>>: f'Outer{cycle+1}' is <<"Outer", cycle + 1>>.
NoLabel == <<"", 0>>

RYGate(theta) ==
    [op |-> "ry", theta |-> theta, label |-> NoLabel,
     cos |-> FCos(FDiv(theta, 2)), sin |-> FSin(FDiv(theta, 2))]

XGate == [op |-> "x", theta |-> FZero, label |-> NoLabel, cos |-> FZero, sin |-> FZero]

Barrier(label) ==
    [op |-> "barrier", theta |-> FZero, label |-> label, cos |-> FZero, sin |-> FZero]

Measure == [op |-> "measure", theta |-> FZero, label |-> NoLabel, cos |-> FZero, sin |-> FZero]

\* for cycle in range(n): the instructions body[cycle], cycle = 0..n-1, one
\* after the other (from `cycle` on).
RECURSIVE Loop(_, _, _)
Loop(body, cycle, n) ==
    IF cycle >= n THEN <<>> ELSE body[cycle] \o Loop(body, cycle + 1, n)

\* range(n)
Range(n) == 0..(n - 1)

TwoTheta(theta) == FAdd(theta, theta)

MinusTwoTheta(theta) == FNeg(FAdd(theta, theta))

\* A midpoint rounded up instead of down.
MidCycle_RoundedUp(n) == (n + 1) \div 2

\* The cycle at which Bob's Pockels cell acts: N // 2.
MidCycle(n) == n \div 2

\* The four loops of create_circuit, each as the instructions it appends.
OuterCycle(self) ==
    LET g == RYGate(TwoTheta(self.theta_M))
        Body == [cycle \in Range(self.M) |-> <<g, Barrier(<<"Outer", cycle + 1>>)>>]
    IN  Loop(Body, 0, self.M)

InnerCycle(self, bob_blocks) ==
    LET g == RYGate(TwoTheta(self.theta_N))
        Body == [cycle \in Range(self.N) |->
                    IF cycle = MidCycle(self.N)
                    THEN IF bob_blocks
                         THEN <<g, XGate, Barrier(<<"Bob_BLOCKS", 0>>)>>
                         ELSE <<g, Barrier(<<"Bob_PASS", 0>>)>>
                    ELSE <<g, Barrier(<<"Inner", cycle + 1>>)>>]
    IN  Loop(Body, 0, self.N)

\* An inner return path whose angle is not negated.
ReturnInner_NotNegated(self) ==
    LET g == RYGate(TwoTheta(self.theta_N))
        Body == [cycle \in Range(self.N) |-> <<g, Barrier(<<"RetInner", cycle + 1>>)>>]
    IN  Loop(Body, 0, self.N)

ReturnInner(self) ==
    LET g == RYGate(MinusTwoTheta(self.theta_N))
        Body == [cycle \in Range(self.N) |-> <<g, Barrier(<<"RetInner", cycle + 1>>)>>]
    IN  Loop(Body, 0, self.N)

ReturnOuter(self) ==
    LET g == RYGate(MinusTwoTheta(self.theta_M))
        Body == [cycle \in Range(self.M) |-> <<g, Barrier(<<"RetOuter", cycle + 1>>)>>]
    IN  Loop(Body, 0, self.M)

\* create_circuit(self, bob_blocks, measure): the instructions of the circuit.
create_circuit(self, bob_blocks, measure) ==
    OuterCycle(self) \o InnerCycle(self, bob_blocks)
    \o ReturnInner(self) \o ReturnOuter(self)
    \o (IF measure THEN <<Measure>> ELSE <<>>)

(***************************************************************************)
(* Statevector evolution (Statevector.from_instruction).                   *)
(***************************************************************************)
Ket0 == <<FOne, FZero>>

\* A rotation that loses the cos term of the second amplitude.
ApplyGate_DroppedTerm(g, s) ==
    IF g.op = "ry"
    THEN <<FSub(FMul(g.cos, s[1]), FMul(g.sin, s[2])), FMul(g.sin, s[1])>>
    ELSE IF g.op = "x" THEN <<s[2], s[1]>>
    ELSE s

\* One instruction applied to the statevector s.
ApplyGate(g, s) ==
    IF g.op = "ry"
    THEN <<FSub(FMul(g.cos, s[1]), FMul(g.sin, s[2])),
           FAdd(FMul(g.sin, s[1]), FMul(g.cos, s[2]))>>
    ELSE IF g.op = "x" THEN <<s[2], s[1]>>
    ELSE s

\* The statevectors after 0, 1, ..., n instructions of qc, starting from s.
RECURSIVE EvolveSteps(_, _, _)
EvolveSteps(s, qc, n) ==
    IF n = 0 THEN <<s>>
    ELSE LET p == EvolveSteps(s, qc, n - 1)
         IN  Append(p, ApplyGate(qc[n], p[Len(p)]))

Evolve(s, qc) == LET p == EvolveSteps(s, qc, Len(qc)) IN p[Len(p)]

from_instruction(qc) == Evolve(Ket0, qc)

(***************************************************************************)
(* get_state_evolution(self, bob_blocks): the circuit it grows and the     *)
(* statevectors it appends.  Statevector.from_instruction(qc) of the grown *)
(* circuit applies the instructions added since the last append to the     *)
(* statevector of the circuit as it was then.                              *)
(***************************************************************************)
\* qc gets the instructions `added`, then states.append(from_instruction(qc)).
GrowAndSnapshot(acc, added) ==
    [qc |-> acc.qc \o added,
     states |-> Append(acc.states, Evolve(acc.states[Len(acc.states)], added))]

\* for cycle in range(n): the instructions added[cycle] go to qc and one
\* statevector is appended, cycle = 0..n-1 (from `cycle` on).
RECURSIVE EvoLoop(_, _, _, _)
EvoLoop(acc, added, cycle, n) ==
    IF cycle >= n THEN acc
    ELSE EvoLoop(GrowAndSnapshot(acc, added[cycle]), added, cycle + 1, n)

\* The rotations of its four loops.
\* An outer rotation by theta_M instead of twice theta_M.
EvoOuter_SingleTheta(self) == RYGate(self.theta_M)

EvoOuter(self) == RYGate(TwoTheta(self.theta_M))

EvoInner(self) == RYGate(TwoTheta(self.theta_N))

\* An inner return rotation whose angle is not negated.
EvoReturnInner_NotNegated(self) == RYGate(TwoTheta(self.theta_N))

EvoReturnInner(self) == RYGate(MinusTwoTheta(self.theta_N))

\* An outer return rotation by the inner angle.
EvoReturnOuter_InnerAngle(self) == RYGate(MinusTwoTheta(self.theta_N))

EvoReturnOuter(self) == RYGate(MinusTwoTheta(self.theta_M))

get_state_evolution(self, bob_blocks) ==
    LET outer == EvoOuter(self)
        inner == EvoInner(self)
        retInner == EvoReturnInner(self)
        retOuter == EvoReturnOuter(self)
        start == [qc |-> <<>>, states |-> <<from_instruction(<<>>)>>]
        Outer == [cycle \in Range(self.M) |-> <<outer>>]
        Inner == [cycle \in Range(self.N) |->
                     IF cycle = MidCycle(self.N) /\ bob_blocks
                     THEN <<inner, XGate>>
                     ELSE <<inner>>]
        RetInner == [cycle \in Range(self.N) |-> <<retInner>>]
        RetOuter == [cycle \in Range(self.M) |-> <<retOuter>>]
        a1 == EvoLoop(start, Outer, 0, self.M)
        a2 == EvoLoop(a1, Inner, 0, self.N)
        a3 == EvoLoop(a2, RetInner, 0, self.N)
    IN  EvoLoop(a3, RetOuter, 0, self.M)

(***************************************************************************)
(* run_simulation: the measured circuit is run on the simulator, which      *)
(* draws `shots` outcomes from the final state of the circuit and reports   *)
(* the outcomes seen, each with the number of times it was seen.            *)
(***************************************************************************)
\* A dict of counts: the labels seen, each with its positive count.
CountsDict(n0, n1) ==
    [label \in ({"0"} \cap {IF n0 > 0 THEN "0" ELSE ""})
               \cup ({"1"} \cap {IF n1 > 0 THEN "1" ELSE ""})
        |-> IF label = "0" THEN n0 ELSE n1]

\* The results simulator.run(qc, shots=shots).result().get_counts() can give.
\* An outcome of probability zero is never drawn.  What the simulator does
\* with shots <= 0 is its own affair: it fails or reports no outcome.
AerCounts(qc, shots) ==
    LET sv == from_instruction(SelectSeq(qc, LAMBDA g : g.op # "measure"))
    IN  IF shots > 0
        THEN {[err |-> "none", counts |-> CountsDict(shots - k, k)] :
                 k \in {j \in 0..shots : /\ (j > 0 => sv[2] # FZero)
                                         /\ (j < shots => sv[1] # FZero)}}
        ELSE {[err |-> "none", counts |-> CountsDict(0, 0)],
              [err |-> "AerError", counts |-> CountsDict(0, 0)]}

\* run_simulation(self, bob_blocks, shots): every (qc, counts, statevector)
\* it can return, or the simulator's failure.
run_simulation(self, bob_blocks, shots) ==
    LET qc == create_circuit(self, bob_blocks, TRUE)
        qc_no_measure == create_circuit(self, bob_blocks, FALSE)
        statevector == from_instruction(qc_no_measure)
    IN  {IF out.err = "none"
         THEN [err |-> "none", qc |-> qc, counts |-> out.counts,
               statevector |-> statevector]
         ELSE [err |-> out.err, qc |-> <<>>, counts |-> CountsDict(0, 0),
               statevector |-> Ket0] : out \in AerCounts(qc, shots)}

(***************************************************************************)
(* analyze_results(self, counts, shots).                                   *)
(***************************************************************************)
\* counts.get(label, default)
DictGet(counts, label, default) ==
    IF label \in DOMAIN counts THEN counts[label] ELSE default

\* Reading the "0" count twice.
analyze_results_WrongKey(counts, shots) ==
    LET h_count == DictGet(counts, "0", 0)
        v_count == DictGet(counts, "0", 0)
    IN  IF shots = 0
        THEN [err |-> "ZeroDivisionError", h_count |-> 0, v_count |-> 0,
              divided |-> TRUE]
        ELSE [err |-> "none", h_count |-> h_count, v_count |-> v_count,
              divided |-> TRUE]

\* The two counts it returns, the exception it raises, and whether it got
\* as far as dividing by shots (the percentages it prints).
analyze_results(counts, shots) ==
    LET h_count == DictGet(counts, "0", 0)
        v_count == DictGet(counts, "1", 0)
    IN  IF shots = 0
        THEN [err |-> "ZeroDivisionError", h_count |-> 0, v_count |-> 0,
              divided |-> TRUE]
        ELSE [err |-> "none", h_count |-> h_count, v_count |-> v_count,
              divided |-> TRUE]

(***************************************************************************)
(* The basis probabilities read off a statevector: abs(s.data[0])**2 and    *)
(* abs(s.data[1])**2.                                                       *)
(***************************************************************************)
P0(s) == FMul(s[1], s[1])

P1(s) == FMul(s[2], s[2])

(***************************************************************************)
(* The state machine: one object, and the calls made on it.                *)
(***************************************************************************)
VARIABLES
    self,   \* the object's fields; NoObject before and after a failed __init__
    ret,    \* the last call: its name, its arguments and what it returned
    born,   \* the object as __init__ left it
    kept    \* a gate sequence or trajectory a caller still holds from an earlier call

vars == <<self, ret, born, kept>>

Nothing == [op |-> "none"]

Init ==
    /\ self = NoObject
    /\ ret = Nothing
    /\ born = NoObject
    /\ kept = Nothing

Constructed == ret.op # "none" /\ self # NoObject

\* The rotations and flips of a circuit, in order.
Gates(qc) == SelectSeq(qc, LAMBDA g : g.op \in {"ry", "x"})

DoConstruct(M, N) ==
    /\ ret.op = "none"
    /\ LET r == __init__(M, N)
       IN  /\ self' = r.self
           /\ born' = r.self
           /\ ret' = [op |-> "__init__", M |-> M, N |-> N, err |-> r.err]

DoCreateCircuit(bob_blocks, measure) ==
    /\ Constructed
    /\ ret' = [op |-> "create_circuit", bob_blocks |-> bob_blocks,
               measure |-> measure,
               qc |-> create_circuit(self, bob_blocks, measure)]
    /\ UNCHANGED <<self, born>>

\* A get_state_evolution that negates self.theta_N in place for the return
\* path instead of negating the angle it passes.
DoGetStateEvolution_Impure(bob_blocks) ==
    /\ Constructed
    /\ LET r == get_state_evolution(self, bob_blocks)
       IN  ret' = [op |-> "get_state_evolution", bob_blocks |-> bob_blocks,
                   qc |-> r.qc, states |-> r.states]
    /\ self' = [self EXCEPT !.theta_N = FNeg(@)]
    /\ UNCHANGED born

DoGetStateEvolution(bob_blocks) ==
    /\ Constructed
    /\ LET r == get_state_evolution(self, bob_blocks)
       IN  ret' = [op |-> "get_state_evolution", bob_blocks |-> bob_blocks,
                   qc |-> r.qc, states |-> r.states]
    /\ UNCHANGED <<self, born>>

DoRunSimulation(bob_blocks, shots) ==
    /\ Constructed
    /\ \E r \in run_simulation(self, bob_blocks, shots) :
          ret' = [op |-> "run_simulation", bob_blocks |-> bob_blocks,
                  shots |-> shots, err |-> r.err, qc |-> r.qc,
                  counts |-> r.counts, statevector |-> r.statevector]
    /\ UNCHANGED <<self, born>>

\* analyze_results on the counts the last run_simulation returned.
DoAnalyzeResults(shots) ==
    /\ Constructed
    /\ ret.op = "run_simulation"
    /\ ret.err = "none"
    /\ LET r == analyze_results(ret.counts, shots)
       IN  ret' = [op |-> "analyze_results",
                   counts |-> ret.counts, run_shots |-> ret.shots,
                   shots |-> shots, err |-> r.err, h_count |-> r.h_count,
                   v_count |-> r.v_count, divided |-> r.divided]
    /\ UNCHANGED <<self, born>>

Construct ==
    \E cfg \in ConfigArgs : DoConstruct(cfg[1], cfg[2]) /\ UNCHANGED kept

CreateCircuit ==
    \E bob_blocks \in BOOLEAN, measure \in BOOLEAN :
        DoCreateCircuit(bob_blocks, measure) /\ UNCHANGED kept

GetStateEvolution ==
    \E bob_blocks \in BOOLEAN : DoGetStateEvolution(bob_blocks) /\ UNCHANGED kept

RunSimulation ==
    \E bob_blocks \in BOOLEAN, shots \in RunShotArgs :
        DoRunSimulation(bob_blocks, shots) /\ UNCHANGED kept

AnalyzeResults ==
    \E shots \in AnalyzeShotArgs : DoAnalyzeResults(shots) /\ UNCHANGED kept

Next ==
    \/ Construct
    \/ CreateCircuit
    \/ GetStateEvolution
    \/ RunSimulation
    \/ AnalyzeResults

Spec == Init /\ [][Next]_vars

(***************************************************************************)
(* The same calls with a caller that may hold on to the gate sequence or    *)
(* the trajectory a call returned while it goes on calling.                 *)
(***************************************************************************)
\* What the caller holds of the call r: calls counts the calls made since.
Held(r) ==
    IF r.op = "create_circuit"
    THEN [op |-> r.op, bob_blocks |-> r.bob_blocks, value |-> Gates(r.qc),
          calls |-> 0]
    ELSE [op |-> r.op, bob_blocks |-> r.bob_blocks, value |-> r.states,
          calls |-> 0]

\* One more call made since the held result was returned (counted up to 2).
Older ==
    IF kept.op = "none" THEN kept
    ELSE [kept EXCEPT !.calls = IF @ < 2 THEN @ + 1 ELSE @]

KeepOrNot == kept' \in {Older, Held(ret')}

KeepOlder == kept' = Older

DetConstruct ==
    \E cfg \in DetConfigArgs : DoConstruct(cfg[1], cfg[2]) /\ UNCHANGED kept

DetCreateCircuit ==
    \E bob_blocks \in BOOLEAN, measure \in BOOLEAN :
        DoCreateCircuit(bob_blocks, measure) /\ KeepOrNot

DetGetStateEvolution ==
    \E bob_blocks \in BOOLEAN : DoGetStateEvolution(bob_blocks) /\ KeepOrNot

DetRunSimulation ==
    \E bob_blocks \in BOOLEAN, shots \in DetShotArgs :
        DoRunSimulation(bob_blocks, shots) /\ KeepOlder

DetAnalyzeResults ==
    \E shots \in DetShotArgs : DoAnalyzeResults(shots) /\ KeepOlder

NextDet ==
    \/ DetConstruct
    \/ DetCreateCircuit
    \/ DetGetStateEvolution
    \/ DetRunSimulation
    \/ DetAnalyzeResults

SpecDet == Init /\ [][NextDet]_vars

(***************************************************************************)
(* Properties.                                                             *)
(***************************************************************************)
\* 1e-9
Tol == <<1000, 0, 0>>

ValidConfig == Constructed /\ self.M >= 1 /\ self.N >= 1

Rotations(qc) == SelectSeq(qc, LAMBDA g : g.op = "ry")

Flips(qc) == {i \in 1..Len(qc) : qc[i].op = "x"}

LastOf(seq) == seq[Len(seq)]

\* C1: for M >= 1, N >= 1 and either control decision, the rotations of the
\* circuit create_circuit builds are, in this order, M of angle +2*theta_M,
\* N of +2*theta_N, N of -2*theta_N and M of -2*theta_M, with
\* theta_M = pi/(4M) and theta_N = pi/(4N); every other instruction is a
\* barrier, the flip of a blocking Bob, or the measurement that ends a
\* measured circuit.
C1_GateOrder ==
    (ret.op = "create_circuit" /\ ValidConfig) =>
        LET M == self.M
            N == self.N
            tM == FDiv(PI, 4 * M)
            tN == FDiv(PI, 4 * N)
            rots == Rotations(ret.qc)
            Want(i) == IF i <= M THEN FAdd(tM, tM)
                       ELSE IF i <= M + N THEN FAdd(tN, tN)
                       ELSE IF i <= M + 2 * N THEN FNeg(FAdd(tN, tN))
                       ELSE FNeg(FAdd(tM, tM))
        IN  /\ Len(rots) = 2 * M + 2 * N
            /\ \A i \in 1..Len(rots) : rots[i].theta = Want(i)
            /\ \A i \in 1..Len(ret.qc) :
                  \/ ret.qc[i].op \in {"ry", "barrier"}
                  \/ ret.qc[i].op = "x" /\ ret.bob_blocks
                  \/ ret.qc[i].op = "measure" /\ ret.measure /\ i = Len(ret.qc)

C1_Witness ==
    /\ ret.op = "create_circuit"
    /\ self.M = 3
    /\ self.N = 5
    /\ ret.bob_blocks
    /\ Len(Rotations(ret.qc)) = 16
    /\ Rotations(ret.qc)[9].theta[3] < 0

\* C2: for N >= 1, the gates of a blocking Bob hold exactly one flip, right
\* after the inner forward rotation of zero-based index N div 2; the gates of
\* a passing Bob hold no flip and are the blocking gates without the flip.
\* This holds of the circuit of create_circuit and of the circuit
\* get_state_evolution grows.
C2_FlipPlacement ==
    (ret.op \in {"create_circuit", "get_state_evolution"} /\ Constructed
     /\ self.N >= 1) =>
        LET g == Gates(ret.qc)
            outer == IF self.M > 0 THEN self.M ELSE 0
            mid == outer + (self.N \div 2) + 1
            tN == FDiv(PI, 4 * self.N)
        IN  IF ret.bob_blocks
            THEN /\ Flips(g) = {mid + 1}
                 /\ g[mid].op = "ry"
                 /\ g[mid].theta = FAdd(tN, tN)
            ELSE /\ Flips(g) = {}
                 /\ g = SelectSeq(Gates(create_circuit(self, TRUE, FALSE)),
                                  LAMBDA i : i.op # "x")

C2_Witness ==
    /\ ret.op = "create_circuit"
    /\ ret.bob_blocks
    /\ self.M = 2
    /\ self.N = 5
    /\ Gates(ret.qc)[2 + 2 + 1].op = "ry"
    /\ Gates(ret.qc)[2 + 2 + 2].op = "x"

\* C3: for M = 4, N = 4 and a blocking Bob, the last statevector of the
\* trajectory has P0 <= L (and so P1 >= 1 - L), L the leakage probability,
\* up to 1e-9.
C3_BlockEndsInV ==
    (ret.op = "get_state_evolution" /\ ret.bob_blocks /\ self.M = 4
     /\ self.N = 4) =>
        LET f == LastOf(ret.states)
            bound == FAdd(self.leakage_prob, Tol)
        IN  /\ FLeq(P0(f), bound)
            /\ FLeq(FSub(FOne, P1(f)), bound)

\* C4: for M >= 1, N >= 1 and a passing Bob, the return rotations undo the
\* forward ones: the last statevector of the trajectory is the first one (up
\* to 1e-9), with P1 <= L and P0 >= 1 - L, L = (pi/(16*M*N))^2.
C4_PassReturnsToStart ==
    (ret.op = "get_state_evolution" /\ ~ret.bob_blocks /\ ValidConfig) =>
        LET f == LastOf(ret.states)
            r == FDiv(PI, 16 * self.M * self.N)
            L == FMul(r, r)
        IN  /\ FLeq(FAbs(FSub(f[1], ret.states[1][1])), Tol)
            /\ FLeq(FAbs(FSub(f[2], ret.states[1][2])), Tol)
            /\ ret.states[1] = Ket0
            /\ FLeq(P1(f), L)
            /\ FLeq(FSub(FOne, P0(f)), L)

\* A passing trajectory of M = 4, N = 4 that has left the start (P1 above
\* 0.99 after the forward rotations) before it returns.
C4_Witness ==
    /\ ret.op = "get_state_evolution"
    /\ ~ret.bob_blocks
    /\ self.M = 4
    /\ self.N = 4
    /\ Len(ret.states) = 17
    /\ FLeq(<<0, 0, 9900>>, P1(ret.states[9]))

\* C5: the trajectory has one entry per gate of the gate sequence plus the
\* initial state, the flip counting as a gate: entry i is the state after
\* the first i gates.
C5_OneEntryPerGate ==
    (ret.op = "get_state_evolution" /\ ValidConfig) =>
        LET g == Gates(ret.qc)
        IN  /\ Len(ret.states) = Len(g) + 1
            /\ \A i \in 0..Len(g) :
                  i + 1 <= Len(ret.states)
                  => ret.states[i + 1] = from_instruction(SubSeq(g, 1, i))

\* C6: a config with M < 1 or N < 1 is refused by the constructor with
\* InvalidConfig, so no object with such a config exists to build gates,
\* trajectories or counts from.
C6_InvalidConfigRejected ==
    /\ (ret.op = "__init__" /\ (ret.M < 1 \/ ret.N < 1))
          => (ret.err = "InvalidConfig" /\ self = NoObject)
    /\ Constructed => (self.M >= 1 /\ self.N >= 1)

\* C7: for M >= 1, N >= 1 and either control decision, every statevector of
\* the trajectory is normalised: P0 + P1 = 1 up to 1e-9, and P0 and P1 lie
\* in [0, 1] (up to 1e-9).
C7_Normalized ==
    (ret.op = "get_state_evolution" /\ ValidConfig) =>
        \A i \in 1..Len(ret.states) :
            LET p0 == P0(ret.states[i])
                p1 == P1(ret.states[i])
            IN  /\ FLeq(FAbs(FSub(FAdd(p0, p1), FOne)), Tol)
                /\ FLeq(FZero, p0) /\ FLeq(p0, FAdd(FOne, Tol))
                /\ FLeq(FZero, p1) /\ FLeq(p1, FAdd(FOne, Tol))

\* A blocking trajectory of M = 4, N = 5 whose last statevector has weight
\* on both basis states.
C7_Witness ==
    /\ ret.op = "get_state_evolution"
    /\ ret.bob_blocks
    /\ self.M = 4
    /\ self.N = 5
    /\ Len(ret.states) = 19
    /\ FLeq(<<0, 0, 100>>, P0(LastOf(ret.states)))
    /\ FLeq(<<0, 0, 100>>, P1(LastOf(ret.states)))

\* C8: for shots S > 0 the counts run_simulation returns have no label but
\* "0" and "1", each count a non-negative integer, and the two counts
\* analyze_results reads from them (a missing label read as 0) sum to S.
C8_CountsConserved ==
    /\ (ret.op = "run_simulation" /\ ret.err = "none" /\ ret.shots > 0) =>
          /\ DOMAIN ret.counts \subseteq {"0", "1"}
          /\ \A label \in DOMAIN ret.counts : ret.counts[label] \in Nat
    /\ (ret.op = "analyze_results" /\ ret.err = "none" /\ ret.run_shots > 0) =>
          /\ ret.h_count \in Nat
          /\ ret.v_count \in Nat
          /\ ret.h_count + ret.v_count = ret.run_shots

\* All shots of a run of 2 landed on "0": the label "1" is missing from the
\* counts and analyze_results reads it as 0.
C8_Witness ==
    /\ ret.op = "analyze_results"
    /\ ret.err = "none"
    /\ ret.run_shots = 2
    /\ DOMAIN ret.counts = {"0"}
    /\ ret.h_count = 2
    /\ ret.v_count = 0

\* C9: a call with shots <= 0 fails with InvalidShotCount where it is made:
\* run_simulation draws no outcome, analyze_results divides by nothing.
C9_NonPositiveShotsRejected ==
    /\ (ret.op = "run_simulation" /\ ValidConfig /\ ret.shots <= 0) =>
          (ret.err = "InvalidShotCount" /\ DOMAIN ret.counts = {})
    /\ (ret.op = "analyze_results" /\ ValidConfig /\ ret.shots <= 0) =>
          (ret.err = "InvalidShotCount" /\ ~ret.divided)

\* C10: no call changes M, N, theta_M, theta_N or leakage_prob, and a call of
\* create_circuit (or the circuit run_simulation returns) or of
\* get_state_evolution returns the gate sequence, or the trajectory, that an
\* earlier call with the same bob_blocks returned, whatever was called in
\* between.
C10_Deterministic ==
    /\ Constructed => self = born
    /\ (/\ kept.op = "create_circuit"
        /\ ret.op \in {"create_circuit", "run_simulation"}
        /\ ret.op = "run_simulation" => ret.err = "none"
        /\ ret.bob_blocks = kept.bob_blocks)
          => Gates(ret.qc) = kept.value
    /\ (/\ kept.op = "get_state_evolution"
        /\ ret.op = "get_state_evolution"
        /\ ret.bob_blocks = kept.bob_blocks)
          => ret.states = kept.value

\* A trajectory held over two later calls, and the same call made again.
C10_Witness ==
    /\ kept.op = "get_state_evolution"
    /\ kept.calls = 2
    /\ ret.op = "get_state_evolution"
    /\ ret.bob_blocks = kept.bob_blocks
    /\ kept.bob_blocks
    /\ self.N = 3

FLess(x, y) == FLeq(x, y) /\ x # y

\* The leakage the constructor computes for the config (M, N).
LeakageOf(M, N) == __init__(M, N).self.leakage_prob

\* C11: the leakage probability of an object is (pi/(16*M*N))^2 of its config
\* and of nothing else, whatever was called on it since, and for M, N >= 1 it
\* is strictly smaller for every larger M with the same N and for every larger
\* N with the same M; so L(2,4) > L(4,4) > L(8,4).
C11_LeakageDecreases ==
    /\ ValidConfig =>
          LET M == self.M
              N == self.N
              r == FDiv(PI, 16 * M * N)
          IN  /\ self.leakage_prob = FMul(r, r)
              /\ self.leakage_prob = LeakageOf(M, N)
              /\ FLess(FZero, self.leakage_prob)
              /\ \A M2 \in (M + 1)..(2 * MaxM) :
                    FLess(LeakageOf(M2, N), self.leakage_prob)
              /\ \A N2 \in (N + 1)..(2 * MaxN) :
                    FLess(LeakageOf(M, N2), self.leakage_prob)
    /\ (ValidConfig /\ self.M = 4 /\ self.N = 4) =>
          /\ FLess(self.leakage_prob, LeakageOf(2, 4))
          /\ FLess(LeakageOf(8, 4), self.leakage_prob)

\* An object of M = 2, N = 4 on which calls were made since its construction,
\* its leakage below that of M = 1, N = 4 and above that of M = 3, N = 4.
C11_Witness ==
    /\ ret.op = "get_state_evolution"
    /\ self.M = 2
    /\ self.N = 4
    /\ FLess(self.leakage_prob, LeakageOf(1, 4))
    /\ FLess(LeakageOf(3, 4), self.leakage_prob)

\* C12: for every config and control decision the measured circuit, the
\* unmeasured circuit and the circuit get_state_evolution grows hold the same
\* rotations and flip in the same order; the last statevector of the
\* trajectory is the statevector run_simulation returns; and an outcome
\* whose amplitude in that statevector is zero is never among the counts.
C12_BuildersAgree ==
    /\ (ret.op \in {"create_circuit", "get_state_evolution"} /\ Constructed) =>
          /\ Gates(ret.qc) = Gates(create_circuit(self, ret.bob_blocks, TRUE))
          /\ Gates(ret.qc) = Gates(create_circuit(self, ret.bob_blocks, FALSE))
          /\ Gates(ret.qc) = Gates(get_state_evolution(self, ret.bob_blocks).qc)
    /\ (ret.op = "get_state_evolution" /\ Constructed) =>
          \A r \in run_simulation(self, ret.bob_blocks, 1) :
              r.err = "none" => r.statevector = LastOf(ret.states)
    /\ (ret.op = "run_simulation" /\ ret.err = "none" /\ Constructed) =>
          LET evo == get_state_evolution(self, ret.bob_blocks)
          IN  /\ Gates(ret.qc) = Gates(evo.qc)
              /\ ret.qc = create_circuit(self, ret.bob_blocks, FALSE) \o <<Measure>>
              /\ ret.statevector = LastOf(evo.states)
              /\ "0" \in DOMAIN ret.counts => ret.statevector[1] # FZero
              /\ "1" \in DOMAIN ret.counts => ret.statevector[2] # FZero

\* A blocking run of M = 3, N = 4 with two shots, one on each outcome, whose
\* statevector is the end of the 15-entry trajectory.
C12_Witness ==
    /\ ret.op = "run_simulation"
    /\ ret.err = "none"
    /\ ret.bob_blocks
    /\ ret.shots = 2
    /\ self.M = 3
    /\ self.N = 4
    /\ DOMAIN ret.counts = {"0", "1"}
    /\ Len(get_state_evolution(self, TRUE).states) = 15
    /\ ret.statevector = LastOf(get_state_evolution(self, TRUE).states)

\* 1/2
FHalf == <<0, 0, Base \div 2>>

Near(x, y) == FLeq(FAbs(FSub(x, y)), Tol)

\* C13: with a passing Bob and M, N >= 1, the trajectory entry of (zero-based)
\* index M, where the outer forward rotations end, has P0 = P1 = 1/2, and
\* the entry of index M + N, where the inner forward rotations end, has
\* P1 = 1 and P0 = 0 (up to 1e-9), whatever M and N are; so P1 on the way is
\* above the leakage probability L.
C13_ForwardTotals ==
    (ret.op = "get_state_evolution" /\ ~ret.bob_blocks /\ ValidConfig) =>
        LET half == ret.states[self.M + 1]
            full == ret.states[self.M + self.N + 1]
        IN  /\ Len(ret.states) = 2 * self.M + 2 * self.N + 1
            /\ Near(P0(half), FHalf)
            /\ Near(P1(half), FHalf)
            /\ Near(P1(full), FOne)
            /\ Near(P0(full), FZero)
            /\ FLess(self.leakage_prob, P1(half))
            /\ FLess(self.leakage_prob, P1(full))

\* A passing trajectory of M = 3, N = 5: the entry before index 3 is not yet
\* at 1/2, and the entry before index 8 is not yet on basis state 1.
C13_Witness ==
    /\ ret.op = "get_state_evolution"
    /\ ~ret.bob_blocks
    /\ self.M = 3
    /\ self.N = 5
    /\ Near(P1(ret.states[4]), FHalf)
    /\ ~Near(P1(ret.states[3]), FHalf)
    /\ Near(P1(ret.states[9]), FOne)
    /\ ~Near(P1(ret.states[8]), FOne)

\* The last statevector of the trajectory of the config (M, N).
FinalOf(M, N, bob_blocks) ==
    LastOf(get_state_evolution(__init__(M, N).self, bob_blocks).states)

\* n * x for an integer n
FTimes(n, x) == Norm3(n * x[1], n * x[2], n * x[3])

\* C14: for a fixed N >= 1 and a fixed control decision the last statevector
\* of the trajectory has the same P0 and P1 (up to 1e-9) for every M >= 1.
\* The outer forward angles add up to the opposite of the outer return
\* angles, flip or no flip.  With a blocking Bob, P0 and P1 are those of a
\* half-angle (N div 2 + 1) * pi / (2N): a function of N and N div 2 alone.
C14_OuterCountIrrelevant ==
    (ret.op = "get_state_evolution" /\ ValidConfig) =>
        LET f == LastOf(ret.states)
            N == self.N
            rots == Rotations(ret.qc)
            a == FTimes(MidCycle(N) + 1, FDiv(PI, 2 * N))
            c == FCos(a)
            s == FSin(a)
        IN  /\ \A M2 \in 1..MaxM :
                  LET f2 == FinalOf(M2, N, ret.bob_blocks)
                  IN  Near(P0(f), P0(f2)) /\ Near(P1(f), P1(f2))
            /\ \A i \in 1..self.M :
                  rots[i].theta = FNeg(rots[Len(rots) + 1 - i].theta)
            /\ ret.bob_blocks => (Near(P0(f), FMul(c, c)) /\ Near(P1(f), FMul(s, s)))

\* A blocking trajectory of M = 4, N = 3 ending with weight on both basis
\* states, as the one of M = 1, N = 3 does.
C14_Witness ==
    /\ ret.op = "get_state_evolution"
    /\ ret.bob_blocks
    /\ self.M = 4
    /\ self.N = 3
    /\ FLeq(<<0, 0, 1000>>, P0(LastOf(ret.states)))
    /\ FLeq(<<0, 0, 1000>>, P1(LastOf(ret.states)))
    /\ Near(P0(LastOf(ret.states)), P0(FinalOf(1, 3, TRUE)))

====
